---- MODULE Spec2Model ----
(***************************************************************************)
(* A model of the Ninja Park processor (src/app.py): the field parsers,    *)
(* the roster and roll-sheet extractors' normalisation and                 *)
(* de-duplication, the merge of the two, the per-time-slot layout with     *)
(* its highlight rules, and the rewrite of the destination worksheets.     *)
(*                                                                         *)
(* TLC's strings are atomic.  Free text that the code searches with a      *)
(* regular expression is therefore either a sequence of tokens (keyword    *)
(* cells, class names) on which the search is computed, or a string of a   *)
(* small enumerated set with the search's result tabulated per string.     *)
(***************************************************************************)
EXTENDS Integers, Sequences, FiniteSets, TLC

VARIABLES
    pc,             \* position in the pipeline under study
    time_df,        \* the students of one (day, time-slot), in merged order
    final_records,  \* the slot's stacked rows (update_google_sheet_advanced)
    formats,        \* apply_highlight_rules' formats list
    keywords_raw,   \* parse_student_list: the keyword cell, as tokens
    clean_keyword,  \* parse_student_list: the keyword kept in the record
    class_name,     \* a roll-sheet class name, as tokens
    class_info,     \* parse_class_info of the raw and of the abbreviated name
    roll_file,      \* the roll sheet's table rows, in document order
    list_file,      \* the roster's table rows, in document order
    df_roll,        \* parse_roll_sheet's result
    df_list,        \* parse_student_list's result
    merged_df,      \* the main block's merged_df
    error,          \* the exception the main block's except clause caught
    worksheets,     \* the destination spreadsheet: title -> content
    previous,       \* the destination spreadsheet before the export
    data_days,      \* the days whose day_df is not empty
    day_idx,        \* update_google_sheet_advanced: position in days_order
    link,           \* update_google_sheet_advanced's outcome
    soup,           \* parse_roll_sheet: the document's headers and tables, in order
    header_idx,     \* parse_roll_sheet: position in headers
    roll_data,      \* parse_roll_sheet: data, the records appended so far
    origin          \* for each record of roll_data, the header and table it came from

hlVars  == <<time_df, final_records, formats>>
kwVars  == <<keywords_raw, clean_keyword>>
clsVars == <<class_name, class_info>>
recVars == <<roll_file, list_file, df_roll, df_list, merged_df, error>>
expVars == <<worksheets, previous, data_days, day_idx, link>>
docVars == <<soup, header_idx, roll_data, origin>>
vars    == <<pc, hlVars, kwVars, clsVars, recVars, expVars, docVars>>

(***************************************************************************)
(* Bounds of the model.                                                    *)
(***************************************************************************)
MaxSlotStudents == 2    \* students of a time slot, highlight study
MaxSortStudents == 3    \* students of a time slot, ordering study
MaxKeywordLen   == 4    \* tokens of a keyword cell
MaxClassLen     == 3    \* tokens of a class name
MaxRoster       == 3    \* rows of the roster table
MaxRoll         == 2    \* rows of the roll sheet
MaxDocLen       == 4    \* headers and tables of a roll-sheet document

(***************************************************************************)
(* Helpers on sequences.                                                   *)
(***************************************************************************)
SeqsUpTo(S, n) == UNION {[1..k -> S] : k \in 0..n}

Max(S) == CHOOSE x \in S : \A y \in S : y <= x

Min(S) == CHOOSE x \in S : \A y \in S : x <= y

(***************************************************************************)
(* Field parsers (src/app.py 51-65), tabulated on the field texts of the   *)
(* model.                                                                  *)
(***************************************************************************)
Levels == {"s0", "s1", "s2", "s3", "s5", "s7"}

\* re.search(r'(\d+)', str(skill_str)); no digits -> 0
parse_skill_number(skill_str) ==
    CASE skill_str = "s0" -> 0
      [] skill_str = "s1" -> 1
      [] skill_str = "s2" -> 2
      [] skill_str = "s3" -> 3
      [] skill_str = "s5" -> 5
      [] skill_str = "s7" -> 7
      [] OTHER -> 0

\* re.search(r'(\d+)', str(group_str)); no digits -> 99
parse_group_number(group_str) ==
    CASE group_str \in {"Group 1", "Group1"} -> 1
      [] group_str \in {"Group 2", "Group2"} -> 2
      [] group_str \in {"Group 3", "Group3"} -> 3
      [] OTHER -> 99

\* int(att_str), -1 when it raises
parse_attendance(att_str) ==
    CASE att_str = "1" -> 1
      [] att_str = "5" -> 5
      [] OTHER -> -1

\* re.search(r'(\d+)', str(age_str)); no digits -> 99
parse_age(age_str) ==
    CASE age_str = "7" -> 7
      [] age_str = "9 yrs" -> 9
      [] OTHER -> 99

(***************************************************************************)
(* Comments and class names of the slot studies.                           *)
(***************************************************************************)
Comments == {"", "Ignore"}

\* "ignore" in str(row.get("RS Comment", "")).lower()
HasIgnore(comment) == comment \in {"Ignore", "ignore", "please IGNORE"}

SlotDays == {"Mon", "Wed"}

ClassesOf(day) ==
    IF day = "Mon" THEN {"FS Ninjas | Mon: 3:40", "ADVANCED Ninjas | Mon: 3:40"}
    ELSE {"FS Ninjas | Wed: 3:40", "Advanced Ninjas | Wed: 3:40"}

\* "advanced" in str(row.get("Class Name", "")).lower()
IsAdvanced(cls) ==
    cls \in {"ADVANCED Ninjas | Mon: 3:40", "Advanced Ninjas | Wed: 3:40"}

\* parse_class_info's day of these class names (the "Sort Day" column)
SortDay(cls) ==
    CASE cls \in ClassesOf("Mon") -> "Mon"
      [] cls \in ClassesOf("Wed") -> "Wed"
      [] OTHER -> "Lost"

(***************************************************************************)
(* Rows of a time slot.                                                    *)
(***************************************************************************)
StudentNames == <<"Ann Lee", "Bob Ray", "Cy Dunn", "Dee Fox", "Eli Roe">>

Row(name, age, att, kw, lvl, cls, comm) ==
    [Student_Name |-> name, Age |-> age, Attend |-> att, Keyword |-> kw,
     Level |-> lvl, Class_Name |-> cls, RS_Comment |-> comm]

\* add_group_block's open_rows entry
OpenRow == Row("open", "", "", "", "", "", "")

\* add_group_block's spacer: {c: "" for c in export_cols}
Spacer == Row("", "", "", "", "", "", "")

GroupSize == 7

(***************************************************************************)
(* get_sorted_group: the rows of one group, sorted by skill, attendance    *)
(* and age.  pandas sorts several columns with a stable sort: rows with    *)
(* equal keys keep their order.                                            *)
(***************************************************************************)
SortKey(r) ==
    <<parse_skill_number(r.Level), parse_attendance(r.Attend), parse_age(r.Age)>>

KeyLess(a, b) ==
    \/ a[1] < b[1]
    \/ a[1] = b[1] /\ a[2] < b[2]
    \/ a[1] = b[1] /\ a[2] = b[2] /\ a[3] < b[3]

RECURSIVE InsertRow(_, _)
InsertRow(r, sorted) ==
    IF sorted = <<>> THEN <<r>>
    ELSE IF KeyLess(SortKey(r), SortKey(sorted[Len(sorted)]))
         THEN Append(InsertRow(r, SubSeq(sorted, 1, Len(sorted) - 1)),
                     sorted[Len(sorted)])
         ELSE Append(sorted, r)

RECURSIVE sort_values(_)
sort_values(rows) ==
    IF rows = <<>> THEN <<>>
    ELSE InsertRow(rows[Len(rows)], sort_values(SubSeq(rows, 1, Len(rows) - 1)))

InGroup(r, grp_num) == parse_group_number(r.Keyword) = grp_num

get_sorted_group(df, grp_num) ==
    sort_values(SelectSeq(df, LAMBDA r : InGroup(r, grp_num)))

\* time_df[~time_df.index.isin(g1.index.union(g2.index).union(g3.index))]
g_other(df) ==
    SelectSeq(df, LAMBDA r : ~InGroup(r, 1) /\ ~InGroup(r, 2) /\ ~InGroup(r, 3))

add_group_block(df_group) ==
    LET count  == Len(df_group)
        needed == IF GroupSize - count > 0 THEN GroupSize - count ELSE 0
    IN  [k \in 1..needed |-> OpenRow] \o df_group \o <<Spacer>>

BuildStack(df) ==
    add_group_block(get_sorted_group(df, 1))
        \o add_group_block(get_sorted_group(df, 2))
        \o add_group_block(get_sorted_group(df, 3))
        \o g_other(df)

(***************************************************************************)
(* apply_highlight_rules.  A format is the code's dict; None is the entry  *)
(* the code leaves at None.                                                *)
(***************************************************************************)
None == [text_color |-> "", bg |-> "", bold |-> FALSE]

RedText  == [text_color |-> "red", bg |-> "", bold |-> TRUE]
LightRed == [text_color |-> "", bg |-> "light_red", bold |-> FALSE]
YellowBg == [text_color |-> "", bg |-> "yellow", bold |-> FALSE]
GreenBg  == [text_color |-> "", bg |-> "green", bold |-> FALSE]

\* is_yellow with the Group 2 threshold of an advanced class lowered to 5
is_yellow_group2_from_5(is_advanced, group, skill) ==
    IF is_advanced
    THEN (group = 1 /\ skill >= 5) \/ (group = 2 /\ skill >= 5)
            \/ (group = 3 /\ skill = 3)
    ELSE (group = 1 /\ skill >= 2) \/ (group = 2 /\ skill = 0)
            \/ (group = 3 /\ skill <= 1)

is_yellow(is_advanced, group, skill) ==
    IF is_advanced
    THEN IF group = 1 /\ skill >= 5 THEN TRUE
         ELSE IF group = 2 /\ skill >= 7 THEN TRUE
         ELSE IF group = 3 /\ skill = 3 THEN TRUE
         ELSE FALSE
    ELSE IF group = 1 /\ skill >= 2 THEN TRUE
         ELSE IF group = 2 /\ skill = 0 THEN TRUE
         ELSE IF group = 3 /\ skill <= 1 THEN TRUE
         ELSE FALSE

\* BaseFormat with the blank-group test made before the red-text test
BaseFormat_orange_first(row) ==
    LET skill       == parse_skill_number(row.Level)
        group       == parse_group_number(row.Keyword)
        is_advanced == IsAdvanced(row.Class_Name)
    IN  IF row.Student_Name = "" \/ row.Student_Name = "open" THEN None
        ELSE IF HasIgnore(row.RS_Comment) THEN None
        ELSE IF group = 99 THEN LightRed
        ELSE IF ~is_advanced /\ skill >= 3 THEN RedText
        ELSE IF is_yellow(is_advanced, group, skill) THEN YellowBg
        ELSE None

\* one iteration of the "1. BASE RULES" loop: the value formats[i] is left at
BaseFormat(row) ==
    LET skill       == parse_skill_number(row.Level)
        group       == parse_group_number(row.Keyword)
        is_advanced == IsAdvanced(row.Class_Name)
    IN  IF row.Student_Name = "" \/ row.Student_Name = "open" THEN None
        ELSE IF HasIgnore(row.RS_Comment) THEN None
        ELSE IF ~is_advanced /\ skill >= 3 THEN RedText
        ELSE IF group = 99 THEN LightRed
        ELSE IF is_yellow(is_advanced, group, skill) THEN YellowBg
        ELSE None

BaseRules(records) == [i \in 1..Len(records) |-> BaseFormat(records[i])]

GroupIndices(records, grp_num) ==
    {i \in 1..Len(records) : parse_group_number(records[i].Keyword) = grp_num}

\* GreenScan without the test of the row's comment
RECURSIVE GreenScan_no_ignore_test(_, _, _, _)
GreenScan_no_ignore_test(indices, idx, records, fmts) ==
    IF idx = 0 THEN fmts
    ELSE IF idx \notin indices
         THEN GreenScan_no_ignore_test(indices, idx - 1, records, fmts)
    ELSE IF records[idx].Student_Name = "open"
         THEN GreenScan_no_ignore_test(indices, idx - 1, records, fmts)
    ELSE IF fmts[idx] = None
         THEN [fmts EXCEPT ![idx] = GreenBg]
    ELSE GreenScan_no_ignore_test(indices, idx - 1, records, fmts)

\* the for loop of apply_green_recursive, from index idx of the list downwards
RECURSIVE GreenScan(_, _, _, _)
GreenScan(indices, idx, records, fmts) ==
    IF idx = 0 THEN fmts
    ELSE IF idx \notin indices
         THEN GreenScan(indices, idx - 1, records, fmts)
    ELSE IF HasIgnore(records[idx].RS_Comment)
         THEN GreenScan(indices, idx - 1, records, fmts)
    ELSE IF records[idx].Student_Name = "open"
         THEN GreenScan(indices, idx - 1, records, fmts)
    ELSE IF fmts[idx] = None
         THEN [fmts EXCEPT ![idx] = GreenBg]
    ELSE GreenScan(indices, idx - 1, records, fmts)

\* apply_green_recursive scanning the indices forwards: the first free row
apply_green_first_free(indices, records, fmts) ==
    LET free == {i \in indices : /\ ~HasIgnore(records[i].RS_Comment)
                                 /\ records[i].Student_Name # "open"
                                 /\ fmts[i] = None}
    IN  IF free = {} THEN fmts ELSE [fmts EXCEPT ![Min(free)] = GreenBg]

apply_green_recursive(indices, records, fmts) ==
    IF indices = {} THEN fmts
    ELSE GreenScan(indices, Len(records), records, fmts)

(***************************************************************************)
(* The slot pipeline: build the stack, the base rules, the green rule for  *)
(* Group 1 and then for Group 2.                                           *)
(***************************************************************************)
SlotStudent(i, kw, lvl, cls, comm, age, att) ==
    Row(StudentNames[i], age, att, kw, lvl, cls, comm)

SlotFields(day) ==
    {"Group 1", "Group 2", "Group 3", ""} \X Levels \X ClassesOf(day) \X Comments

HighlightInput(n, f) ==
    [i \in 1..n |-> SlotStudent(i, f[i][1], f[i][2], f[i][3], f[i][4], "7", "1")]

SortFields ==
    {"Group 1", "Group1", ""} \X {"s0", "s2"} \X {"7", "9 yrs"} \X {"1", "5", "n/a"}

LayoutInput(n, f) ==
    [i \in 1..n |-> SlotStudent(i, f[i][1], f[i][2], "FS Ninjas | Mon: 3:40", "",
                                f[i][3], f[i][4])]

BuildSlot ==
    /\ pc = "slot"
    /\ final_records' = BuildStack(time_df)
    /\ formats' = [i \in 1..Len(final_records') |-> None]
    /\ pc' = "base"
    /\ UNCHANGED <<time_df, kwVars, clsVars, recVars, expVars>>
    /\ UNCHANGED docVars

ApplyBaseRules ==
    /\ pc = "base"
    /\ formats' = BaseRules(final_records)
    /\ pc' = "green1"
    /\ UNCHANGED <<time_df, final_records, kwVars, clsVars, recVars, expVars>>
    /\ UNCHANGED docVars

ApplyGreen1 ==
    /\ pc = "green1"
    /\ formats' = apply_green_recursive(GroupIndices(final_records, 1),
                                        final_records, formats)
    /\ pc' = "green2"
    /\ UNCHANGED <<time_df, final_records, kwVars, clsVars, recVars, expVars>>
    /\ UNCHANGED docVars

ApplyGreen2 ==
    /\ pc = "green2"
    /\ formats' = apply_green_recursive(GroupIndices(final_records, 2),
                                        final_records, formats)
    /\ pc' = "formatted"
    /\ UNCHANGED <<time_df, final_records, kwVars, clsVars, recVars, expVars>>
    /\ UNCHANGED docVars

IdleKw  == keywords_raw = <<>> /\ clean_keyword = <<>>
IdleCls == class_name = <<>> /\ class_info = <<>>
IdleRec ==
    /\ roll_file = <<>> /\ list_file = <<>> /\ df_roll = <<>> /\ df_list = <<>>
    /\ merged_df = <<>> /\ error = ""
IdleExp ==
    /\ worksheets = <<>> /\ previous = <<>> /\ data_days = {} /\ day_idx = 0
    /\ link = "None"
IdleDoc == soup = <<>> /\ header_idx = 0 /\ roll_data = <<>> /\ origin = <<>>
IdleHl  == time_df = <<>> /\ final_records = <<>> /\ formats = <<>>

InitHighlight ==
    /\ pc = "slot"
    /\ \E n \in 1..MaxSlotStudents, day \in SlotDays :
          \E f \in [1..n -> SlotFields(day)] : time_df = HighlightInput(n, f)
    /\ final_records = <<>>
    /\ formats = <<>>
    /\ IdleKw /\ IdleCls /\ IdleRec /\ IdleExp /\ IdleDoc

InitLayout ==
    /\ pc = "slot"
    /\ \E n \in 1..MaxSortStudents :
          \E f \in [1..n -> SortFields] : time_df = LayoutInput(n, f)
    /\ final_records = <<>>
    /\ formats = <<>>
    /\ IdleKw /\ IdleCls /\ IdleRec /\ IdleExp /\ IdleDoc

NextSlot == BuildSlot \/ ApplyBaseRules \/ ApplyGreen1 \/ ApplyGreen2

SpecHighlight == InitHighlight /\ [][NextSlot]_vars

SpecLayout == InitLayout /\ [][NextSlot]_vars

(***************************************************************************)
(* parse_student_list's keyword: the cell's text is a sequence of tokens,  *)
(* the word "group" in some letter case, a blank, a digit or another word. *)
(***************************************************************************)
KeywordTokens == {"group", "GROUP", " ", "1", "3", "4", "vip"}

\* str.lower() of a token
Lower(tok) ==
    CASE tok \in {"GROUP", "Group"} -> "group"
      [] tok = "VIP" -> "vip"
      [] OTHER -> tok

\* str.capitalize() of a text: its first character upper case, the rest lower
Capitalize(text) ==
    [k \in DOMAIN text |->
        IF k = 1
        THEN (CASE Lower(text[k]) = "group" -> "Group"
                [] Lower(text[k]) = "vip" -> "Vip"
                [] OTHER -> text[k])
        ELSE Lower(text[k])]

\* the end of a match of group\s*[1-3] starting at token i, 0 when none
GroupMatchEnd(text, i) ==
    IF text[i] # "group" THEN 0
    ELSE LET ends == {j \in (i + 1)..Len(text) :
                         /\ text[j] \in {"1", "2", "3"}
                         /\ \A k \in (i + 1)..(j - 1) : text[k] = " "}
         IN  IF ends = {} THEN 0 ELSE Min(ends)

\* re.search(r'(group\s*[1-3])', keywords_raw): group(0) of the leftmost match
GroupSearch(text) ==
    LET starts == {i \in DOMAIN text : GroupMatchEnd(text, i) # 0}
    IN  IF starts = {} THEN <<>>
        ELSE SubSeq(text, Min(starts), GroupMatchEnd(text, Min(starts)))

\* lines 150-153: the keyword kept for a cell text
CleanKeyword(cell) ==
    LET lowered     == [k \in DOMAIN cell |-> Lower(cell[k])]
        group_match == GroupSearch(lowered)
    IN  IF group_match # <<>> THEN Capitalize(group_match) ELSE <<>>

ExtractKeyword ==
    /\ pc = "keyword"
    /\ clean_keyword' = CleanKeyword(keywords_raw)
    /\ pc' = "keyword_done"
    /\ UNCHANGED <<keywords_raw, hlVars, clsVars, recVars, expVars>>
    /\ UNCHANGED docVars

InitKeyword ==
    /\ pc = "keyword"
    /\ keywords_raw \in SeqsUpTo(KeywordTokens, MaxKeywordLen)
    /\ clean_keyword = <<>>
    /\ IdleHl /\ IdleCls /\ IdleRec /\ IdleExp /\ IdleDoc

SpecKeyword == InitKeyword /\ [][ExtractKeyword]_vars

(***************************************************************************)
(* Class names: a sequence of words.  abbreviate_class_name cuts the name  *)
(* at its first calendar date and shortens known words; parse_class_info   *)
(* takes the first day word and the first time.                            *)
(***************************************************************************)
ClassTokens ==
    {"Mon", "wed", "3:40", "9:15", "1/2/2025", "Homeschool", "Flip Side Ninjas"}

NotFound == <<"Not Found">>

\* a match of \d{1,2}/\d{1,2}/\d{4}
IsDate(tok) == tok \in {"1/2/2025", "12/10/2024"}

\* the three str.replace calls of abbreviate_class_name, on one word
Shorten(tok) ==
    CASE tok = "Homeschool" -> "HS"
      [] tok = "Flip Side Ninjas" -> "FS Ninjas"
      [] tok = "(Ages 5-7)" -> "(5-7)"
      [] OTHER -> tok

abbreviate_class_name(name) ==
    LET dates == {i \in DOMAIN name : IsDate(name[i])}
        cut   == IF dates = {} THEN name ELSE SubSeq(name, 1, Min(dates) - 1)
    IN  [k \in DOMAIN cut |-> Shorten(cut[k])]

\* \b(Mon|Tue|Wed|Thu|Fri)\b with re.IGNORECASE, and .title() of the match
DayOf(tok) ==
    CASE tok \in {"Mon", "mon", "MON"} -> "Mon"
      [] tok \in {"Tue", "tue"} -> "Tue"
      [] tok \in {"Wed", "wed", "WED"} -> "Wed"
      [] tok \in {"Thu", "thu"} -> "Thu"
      [] tok \in {"Fri", "fri"} -> "Fri"
      [] OTHER -> ""

\* (\d{1,2}):(\d{2}): <<hour, minute>> of the match, <<>> when none
TimeOf(tok) ==
    CASE tok = "3:40" -> <<3, 40>>
      [] tok = "9:15" -> <<9, 15>>
      [] tok = "12:05" -> <<12, 5>>
      [] OTHER -> <<>>

parse_class_info(name) ==
    IF name = NotFound THEN <<"Lost", 9999, "">>
    ELSE LET days  == {i \in DOMAIN name : DayOf(name[i]) # ""}
             times == {i \in DOMAIN name : TimeOf(name[i]) # <<>>}
             day   == IF days = {} THEN "Lost" ELSE DayOf(name[Min(days)])
             hm    == TimeOf(name[Min(times)])
             hour  == IF hm[1] < 8 THEN hm[1] + 12 ELSE hm[1]
         IN  IF times = {} THEN <<day, 9999, "">>
             ELSE <<day, hour * 100 + hm[2], name[Min(times)]>>

\* lines 501-505: the abbreviated class name and its Sort Day, Sort Time, Time Str
ClassColumns(name) ==
    LET short == abbreviate_class_name(name)
    IN  <<short>> \o parse_class_info(short)

ParseClass ==
    /\ pc = "class"
    /\ class_info' = ClassColumns(class_name)
    /\ pc' = "class_done"
    /\ UNCHANGED <<class_name, hlVars, kwVars, recVars, expVars>>
    /\ UNCHANGED docVars

InitClass ==
    /\ pc = "class"
    /\ class_name \in SeqsUpTo(ClassTokens, MaxClassLen) \cup {NotFound}
    /\ class_info = <<>>
    /\ IdleHl /\ IdleKw /\ IdleRec /\ IdleExp /\ IdleDoc

SpecClass == InitClass /\ [][ParseClass]_vars


(***************************************************************************)
(* The two extractors and the merge of the main block.  A roster row is    *)
(* its name cell and its age cell (the attendance, keyword and comment     *)
(* cells travel with the row as the age does); a roll-sheet row is its     *)
(* name cell, its details cell and the class name of its section.          *)
(***************************************************************************)
RosterNames == {"john smith", "John  Smith", "amy lee", ""}

RollNames == {"john smith", "AMY LEE", "zed only"}

Details == {"S3 done", "no level info"}

RollClasses == {<<"Flip Side Ninjas", "Mon", "3:40">>, <<"Homeschool", "wed", "9:15">>}

\* clean_name: runs of white space to one blank, strip, title case
clean_name(name) ==
    CASE name \in {"john smith", "John  Smith", "JOHN SMITH"} -> "John Smith"
      [] name \in {"amy lee", "AMY LEE"} -> "Amy Lee"
      [] name = "zed only" -> "Zed Only"
      [] OTHER -> ""

\* raw_name and len(raw_name) > 1
LongEnough(raw_name) == raw_name \notin {"", "J"}

\* re.search(r's([0-9]|10)\b', details_text) on the lowered details
SkillOf(details_text) ==
    CASE details_text = "S3 done" -> "s3"
      [] details_text = "completed s7 level" -> "s7"
      [] OTHER -> "s0"

\* pd.DataFrame(data): no rows gives a frame without columns
DataFrame(data, cols) ==
    [columns |-> IF data = <<>> THEN {} ELSE cols, rows |-> data]

\* drop_duplicates(subset=["Student Name"]), keep='first'
drop_duplicates(rows) ==
    SelectSeq([i \in DOMAIN rows |->
                  [row |-> rows[i],
                   first |-> \A j \in 1..(i - 1) :
                                rows[j].Student_Name # rows[i].Student_Name]],
              LAMBDA e : e.first)

Unwrap(entries) == [i \in DOMAIN entries |-> entries[i].row]

RollRecord(r) ==
    [Student_Name |-> clean_name(r.raw_name), Skill_Level |-> SkillOf(r.details),
     Class_Name |-> r.class]

parse_roll_sheet(file) ==
    LET kept == SelectSeq(file, LAMBDA r : LongEnough(r.raw_name) /\ r.raw_name # "Student")
        data == [i \in DOMAIN kept |-> RollRecord(kept[i])]
        df   == DataFrame(data, {"Student Name", "Skill Level", "Class Name"})
    IN  IF df.rows # <<>> THEN [df EXCEPT !.rows = Unwrap(drop_duplicates(df.rows))]
        ELSE df

ListRecord(r) == [Student_Name |-> clean_name(r.raw_name), Age |-> r.age]

parse_student_list(file) ==
    LET kept == SelectSeq(file, LAMBDA r : LongEnough(r.raw_name))
        data == [i \in DOMAIN kept |-> ListRecord(kept[i])]
        df   == DataFrame(data, {"Student Name", "Age"})
    IN  IF df.rows # <<>> THEN [df EXCEPT !.rows = Unwrap(drop_duplicates(df.rows))]
        ELSE df

NaN == "NaN"

NaNClass == <<"NaN">>

RECURSIVE Flatten(_)
Flatten(seqs) ==
    IF seqs = <<>> THEN <<>> ELSE Head(seqs) \o Flatten(Tail(seqs))

\* pd.merge(left, right, on="Student Name", how="left") of frames with the key
LeftJoin(left, right) ==
    Flatten([i \in DOMAIN left |->
        LET hits == SelectSeq(right, LAMBDA r : r.Student_Name = left[i].Student_Name)
        IN  IF hits = <<>>
            THEN <<[Student_Name |-> left[i].Student_Name, Age |-> left[i].Age,
                    Skill_Level |-> NaN, Class_Name |-> NaNClass]>>
            ELSE [k \in DOMAIN hits |->
                    [Student_Name |-> left[i].Student_Name, Age |-> left[i].Age,
                     Skill_Level |-> hits[k].Skill_Level,
                     Class_Name |-> hits[k].Class_Name]]])

\* lines 496-505 on one merged row
Finish(m) ==
    LET skill == IF m.Skill_Level = NaN THEN "s0" ELSE m.Skill_Level
        class == IF m.Class_Name = NaNClass THEN NotFound ELSE m.Class_Name
        cols  == ClassColumns(class)
    IN  [Student_Name |-> m.Student_Name, Age |-> m.Age, Skill_Level |-> skill,
         Class_Name |-> cols[1], Sort_Day |-> cols[2], Sort_Time |-> cols[3]]

ParseRollSheet ==
    /\ pc = "roll"
    /\ df_roll' = parse_roll_sheet(roll_file)
    /\ pc' = "list"
    /\ UNCHANGED <<roll_file, list_file, df_list, merged_df, error,
                   hlVars, kwVars, clsVars, expVars>>
    /\ UNCHANGED docVars

ParseStudentList ==
    /\ pc = "list"
    /\ df_list' = parse_student_list(list_file)
    /\ pc' = "merge"
    /\ UNCHANGED <<roll_file, list_file, df_roll, merged_df, error,
                   hlVars, kwVars, clsVars, expVars>>
    /\ UNCHANGED docVars

\* lines 495-505; a frame without the key column makes pd.merge raise KeyError,
\* which the except clause of line 517 reports
Merge ==
    /\ pc = "merge"
    /\ IF "Student Name" \in df_list.columns /\ "Student Name" \in df_roll.columns
       THEN LET joined == LeftJoin(df_list.rows, df_roll.rows)
                named  == SelectSeq(joined, LAMBDA m : m.Student_Name # "")
            IN  /\ merged_df' = [i \in DOMAIN named |-> Finish(named[i])]
                /\ error' = ""
       ELSE /\ error' = "Detailed Error: 'Student Name'"
            /\ UNCHANGED merged_df
    /\ pc' = "merged"
    /\ UNCHANGED <<roll_file, list_file, df_roll, df_list,
                   hlVars, kwVars, clsVars, expVars>>
    /\ UNCHANGED docVars

RosterRows == [raw_name : RosterNames, age : {"7", "9 yrs"}]

RollRows == [raw_name : RollNames, details : Details, class : RollClasses]

InitReconcile ==
    /\ pc = "roll"
    /\ roll_file \in SeqsUpTo(RollRows, MaxRoll)
    /\ list_file \in SeqsUpTo(RosterRows, MaxRoster)
    /\ df_roll = <<>> /\ df_list = <<>> /\ merged_df = <<>> /\ error = ""
    /\ IdleHl /\ IdleKw /\ IdleCls /\ IdleExp /\ IdleDoc

NextReconcile == ParseRollSheet \/ ParseStudentList \/ Merge

SpecReconcile == InitReconcile /\ [][NextReconcile]_vars

(***************************************************************************)
(* update_google_sheet_advanced against a spreadsheet whose calls may      *)
(* fail.  A worksheet is absent, old (the previous export), empty (just    *)
(* added), values (values written, no formatting) or new (formatted).      *)
(***************************************************************************)
days_order == <<"Mon", "Tue", "Wed", "Thu", "Fri", "Lost">>

Days == {days_order[i] : i \in DOMAIN days_order}

Titles == Days \cup {"Sheet1"}

\* the loop variable day of line 264
this_day == days_order[day_idx]

\* lines 243-247: client.open; a failure is reported and None returned
OpenSheet ==
    /\ pc = "open"
    /\ \E ok \in BOOLEAN :
          IF ok THEN pc' = "sheet1" /\ UNCHANGED error
          ELSE pc' = "returned" /\ error' = "Could not open sheet"
    /\ UNCHANGED <<worksheets, previous, data_days, day_idx, link,
                   roll_file, list_file, df_roll, df_list, merged_df,
                   hlVars, kwVars, clsVars>>
    /\ UNCHANGED docVars

\* try: ss.del_worksheet(ss.worksheet(title)) except: pass
TryDelete(title, ok) ==
    IF ok /\ worksheets[title] # "absent"
    THEN [worksheets EXCEPT ![title] = "absent"]
    ELSE worksheets

\* lines 259-262
DeleteSheet1 ==
    /\ pc = "sheet1"
    /\ \E ok \in BOOLEAN : worksheets' = TryDelete("Sheet1", ok)
    /\ day_idx' = 1
    /\ pc' = "day"
    /\ UNCHANGED <<previous, data_days, link, recVars, hlVars, kwVars, clsVars>>
    /\ UNCHANGED docVars

\* lines 264-270 and 469: the loop head
NextDay ==
    /\ pc = "day"
    /\ IF day_idx > Len(days_order)
       THEN /\ link' = "https://docs.google.com/spreadsheets/d/id"
            /\ pc' = "returned"
            /\ UNCHANGED day_idx
       ELSE IF this_day \notin data_days
       THEN /\ day_idx' = day_idx + 1
            /\ UNCHANGED <<pc, link>>
       ELSE /\ pc' = "delete"
            /\ UNCHANGED <<day_idx, link>>
    /\ UNCHANGED <<worksheets, previous, data_days, recVars, hlVars, kwVars, clsVars>>
    /\ UNCHANGED docVars

\* lines 272-275
DeleteOld ==
    /\ pc = "delete"
    /\ \E ok \in BOOLEAN : worksheets' = TryDelete(this_day, ok)
    /\ pc' = "add"
    /\ UNCHANGED <<previous, data_days, day_idx, link, recVars, hlVars, kwVars, clsVars>>
    /\ UNCHANGED docVars

\* a call of the spreadsheet that raises: the exception leaves
\* update_google_sheet_advanced and line 517 reports it
Raise ==
    /\ pc' = "raised"
    /\ error' = "Detailed Error"
    /\ UNCHANGED <<worksheets, link>>

\* line 381; the spreadsheet refuses a title it already holds
AddWorksheet ==
    /\ pc = "add"
    /\ \E ok \in BOOLEAN :
          IF ok /\ worksheets[this_day] = "absent"
          THEN /\ worksheets' = [worksheets EXCEPT ![this_day] = "empty"]
               /\ pc' = "update"
               /\ UNCHANGED <<link, error>>
          ELSE Raise
    /\ UNCHANGED <<previous, data_days, day_idx, roll_file, list_file, df_roll,
                   df_list, merged_df, hlVars, kwVars, clsVars>>
    /\ UNCHANGED docVars

\* line 382
UpdateValues ==
    /\ pc = "update"
    /\ \E ok \in BOOLEAN :
          IF ok
          THEN /\ worksheets' = [worksheets EXCEPT ![this_day] = "values"]
               /\ pc' = "batch"
               /\ UNCHANGED <<link, error>>
          ELSE Raise
    /\ UNCHANGED <<previous, data_days, day_idx, roll_file, list_file, df_roll,
                   df_list, merged_df, hlVars, kwVars, clsVars>>
    /\ UNCHANGED docVars

\* lines 466-467, and the loop's next iteration
BatchUpdate ==
    /\ pc = "batch"
    /\ \E ok \in BOOLEAN :
          IF ok
          THEN /\ worksheets' = [worksheets EXCEPT ![this_day] = "new"]
               /\ pc' = "day"
               /\ day_idx' = day_idx + 1
               /\ UNCHANGED <<link, error>>
          ELSE Raise /\ UNCHANGED day_idx
    /\ UNCHANGED <<previous, data_days, roll_file, list_file, df_roll,
                   df_list, merged_df, hlVars, kwVars, clsVars>>
    /\ UNCHANGED docVars

InitExport ==
    /\ pc = "open"
    /\ worksheets \in [Titles -> {"old", "absent"}]
    /\ previous = worksheets
    /\ data_days \in SUBSET Days
    /\ day_idx = 0
    /\ link = "None"
    /\ IdleHl /\ IdleKw /\ IdleCls /\ IdleRec /\ IdleDoc

NextExport ==
    OpenSheet \/ DeleteSheet1 \/ NextDay \/ DeleteOld \/ AddWorksheet
        \/ UpdateValues \/ BatchUpdate

SpecExport == InitExport /\ [][NextExport]_vars

(***************************************************************************)
(* parse_roll_sheet's walk of the headers.  The document is its            *)
(* full-width-header divs and its table-roll-sheet tables in document      *)
(* order, each with the source line the parser gives it; an element is on  *)
(* the line of the one before it or on the next line.                      *)
(***************************************************************************)
HeaderTexts == RollClasses \cup {<<>>}

TableRows ==
    {<<>>, <<[raw_name |-> "AMY LEE", details |-> "S3 done"]>>,
           <<[raw_name |-> "john smith", details |-> "no level info"]>>}

Header(text) == [kind |-> "header", text |-> text, rows |-> <<>>]

Table(rows) == [kind |-> "table", text |-> <<>>, rows |-> rows]

Elements == {Header(t) : t \in HeaderTexts} \cup {Table(r) : r \in TableRows}

\* the document of elements e[1..n], element k > 1 on a new line iff nl[k]
Document(n, e, nl) ==
    [i \in 1..n |->
        [kind |-> e[i].kind, text |-> e[i].text, rows |-> e[i].rows,
         sourceline |-> 1 + Cardinality({k \in 2..i : nl[k]})]]

\* soup.find_all('div', class_='full-width-header'): the headers' positions
headers == SelectSeq([i \in DOMAIN soup |-> i], LAMBDA i : soup[i].kind = "header")

\* element.find_next(...): the first element of the kind after position p, 0 for None
find_next(p, kind) ==
    LET later == {q \in DOMAIN soup : q > p /\ soup[q].kind = kind}
    IN  IF later = {} THEN 0 ELSE Min(later)

\* line 79
current_class_name(text) == IF text = <<>> THEN <<"Unknown Class">> ELSE text

\* lines 84-88: the header has no roster when the next header's line is before
\* the table's line
SkipsHeader(table, next_header) ==
    /\ table # 0 /\ next_header # 0
    /\ soup[next_header].sourceline < soup[table].sourceline

\* lines 102-118: the records of a table's rows under a class name
TableRecords(rows, class) ==
    LET kept == SelectSeq(rows, LAMBDA r : LongEnough(r.raw_name) /\ r.raw_name # "Student")
    IN  [i \in DOMAIN kept |->
            RollRecord([raw_name |-> kept[i].raw_name, details |-> kept[i].details,
                        class |-> class])]

\* one iteration of the loop of line 76
WalkHeader ==
    /\ pc = "walk"
    /\ header_idx <= Len(headers)
    /\ LET header      == headers[header_idx]
           table       == find_next(header, "table")
           next_header == find_next(header, "header")
           records     == TableRecords(soup[table].rows,
                                       current_class_name(soup[header].text))
       IN  IF SkipsHeader(table, next_header) \/ table = 0
           THEN UNCHANGED <<roll_data, origin>>
           ELSE /\ roll_data' = roll_data \o records
                /\ origin' = origin \o [i \in DOMAIN records |->
                                           [header |-> header, table |-> table]]
    /\ header_idx' = header_idx + 1
    /\ UNCHANGED <<pc, soup, hlVars, kwVars, clsVars, recVars, expVars>>

\* lines 120-122
ReturnRollSheet ==
    /\ pc = "walk"
    /\ header_idx > Len(headers)
    /\ LET df == DataFrame(roll_data, {"Student Name", "Skill Level", "Class Name"})
       IN  df_roll' = IF df.rows # <<>>
                      THEN [df EXCEPT !.rows = Unwrap(drop_duplicates(df.rows))]
                      ELSE df
    /\ pc' = "walked"
    /\ UNCHANGED <<roll_file, list_file, df_list, merged_df, error,
                   hlVars, kwVars, clsVars, expVars, docVars>>

InitRollSheet ==
    /\ pc = "walk"
    /\ \E n \in 0..MaxDocLen :
          \E e \in [1..n -> Elements], nl \in [1..n -> BOOLEAN] :
              soup = Document(n, e, nl)
    /\ header_idx = 1
    /\ roll_data = <<>>
    /\ origin = <<>>
    /\ IdleHl /\ IdleKw /\ IdleCls /\ IdleRec /\ IdleExp

NextRollSheet == WalkHeader \/ ReturnRollSheet

SpecRollSheet == InitRollSheet /\ [][NextRollSheet]_vars

(***************************************************************************)
(* The whole model: each study from its initial states.                    *)
(***************************************************************************)
Init ==
    InitHighlight \/ InitLayout \/ InitKeyword \/ InitClass \/ InitReconcile
        \/ InitExport \/ InitRollSheet

Next ==
    NextSlot \/ ExtractKeyword \/ ParseClass \/ NextReconcile \/ NextExport
        \/ NextRollSheet

Spec == Init /\ [][Next]_vars

(***************************************************************************)
(* Properties of the highlight rules (SpecHighlight).                      *)
(***************************************************************************)
Rows == DOMAIN final_records

Skill(i) == parse_skill_number(final_records[i].Level)

Group(i) == parse_group_number(final_records[i].Keyword)

Ignored(i) == HasIgnore(final_records[i].RS_Comment)

Advanced(i) == IsAdvanced(final_records[i].Class_Name)

IsStudent(i) == final_records[i].Student_Name \notin {"", "open"}

\* the rows of group g that the green rule may take
FreeRows(g) ==
    {i \in Rows : Group(i) = g /\ ~Ignored(i) /\ BaseFormat(final_records[i]) = None}

GreenRows(g) == {i \in Rows : Group(i) = g /\ formats[i] = GreenBg}

\* C1: when apply_highlight_rules returns, each of Group 1 and Group 2 has at
\* most one Green row, the last row of the group that is not ignored and has
\* no base category; a group without such a row has no Green row, every row
\* with a base category keeps it, and rows of Group 3 or without keyword are
\* never Green.
C1_GreenIsLastFreeRow ==
    pc = "formatted" =>
        /\ \A g \in {1, 2} :
              GreenRows(g) = IF FreeRows(g) = {} THEN {} ELSE {Max(FreeRows(g))}
        /\ \A i \in Rows :
              BaseFormat(final_records[i]) # None
                  => formats[i] = BaseFormat(final_records[i])
        /\ \A i \in Rows : Group(i) \notin {1, 2} => formats[i] # GreenBg

\* a slot where Group 1 has two free rows and the last of them is Green
C1_Witness ==
    /\ pc = "formatted"
    /\ Cardinality(FreeRows(1)) = 2
    /\ formats[Max(FreeRows(1))] = GreenBg
    /\ formats[Min(FreeRows(1))] = None

\* C2: a row whose comment contains "ignore" has no format at any point of
\* apply_highlight_rules, whatever its level, keyword, class and position.
C2_IgnoredRowsHaveNoFormat ==
    \A i \in DOMAIN formats : Ignored(i) => formats[i] = None

\* an ignored Group 1 row, last of its group, that the red rule would take,
\* in a slot with no other free row
C2_Witness ==
    /\ pc = "formatted"
    /\ \E i \in Rows :
          /\ Ignored(i) /\ Group(i) = 1 /\ Skill(i) >= 3 /\ ~Advanced(i)
          /\ \A j \in Rows : Group(j) = 1 => j <= i
          /\ formats[i] = None
    /\ FreeRows(1) = {}

\* the Yellow matrix keyed by the day bucket
DayYellow(day, group, skill) ==
    IF day \in {"Mon", "Tue", "Fri"}
    THEN (group = 1 /\ skill >= 2) \/ (group = 2 /\ skill = 0)
            \/ (group = 3 /\ skill <= 1)
    ELSE (group = 1 /\ skill >= 5) \/ (group = 2 /\ (skill = 3 \/ skill >= 7))
            \/ (group = 3 /\ skill <= 5)

\* the rows the Yellow rule decides: student rows, not ignored, not Red, with
\* a group keyword
YellowDecided(i) ==
    /\ IsStudent(i) /\ ~Ignored(i) /\ formats[i] # RedText /\ Group(i) \in {1, 2, 3}

\* C5 as stated: Yellow is decided by the day bucket of the row's class.
C5_YellowByDayBucket ==
    pc = "formatted" =>
        \A i \in Rows :
            YellowDecided(i) =>
                (formats[i] = YellowBg
                    <=> DayYellow(SortDay(final_records[i].Class_Name), Group(i), Skill(i)))

\* C5 as amended: Yellow is decided by whether the class name contains
\* "advanced", and not by the day.
C5_YellowByAdvanced ==
    pc = "formatted" =>
        \A i \in Rows :
            YellowDecided(i) =>
                (formats[i] = YellowBg
                    <=> IF Advanced(i)
                        THEN \/ Group(i) = 1 /\ Skill(i) >= 5
                             \/ Group(i) = 2 /\ Skill(i) >= 7
                             \/ Group(i) = 3 /\ Skill(i) = 3
                        ELSE \/ Group(i) = 1 /\ Skill(i) >= 2
                             \/ Group(i) = 2 /\ Skill(i) = 0
                             \/ Group(i) = 3 /\ Skill(i) <= 1)

\* a Monday slot with an advanced-class Group 2 row at level 7 that is Yellow
\* and an advanced-class Group 1 row at level 2 that is not
C5_Witness ==
    /\ pc = "formatted"
    /\ \E i, j \in Rows :
          /\ YellowDecided(i) /\ Advanced(i) /\ Group(i) = 2 /\ Skill(i) = 7
          /\ SortDay(final_records[i].Class_Name) = "Mon"
          /\ formats[i] = YellowBg
          /\ YellowDecided(j) /\ Advanced(j) /\ Group(j) = 1 /\ Skill(j) = 2
          /\ formats[j] # YellowBg

\* C10: once the base rules have run, a student row that is not ignored is
\* Red and bold when its class is not advanced and its level is 3 or more,
\* whatever its keyword; one that is not Red and has no keyword is Orange,
\* whatever its level; a Yellow row is neither; and no format carries two
\* categories (a text colour and a background, or an unknown mix).
C10_BasePriority ==
    pc \in {"green1", "green2", "formatted"} =>
        \A i \in Rows :
            /\ (IsStudent(i) /\ ~Ignored(i)) =>
                  LET red == ~Advanced(i) /\ Skill(i) >= 3
                      orange == ~red /\ final_records[i].Keyword = ""
                  IN  /\ red => formats[i] = RedText
                      /\ orange => formats[i] = LightRed
                      /\ formats[i] = YellowBg => ~red /\ ~orange
                      /\ formats[i] = RedText => red
                      /\ formats[i] = LightRed => orange
            /\ formats[i] \in {None, RedText, LightRed, YellowBg, GreenBg}
            /\ ~(formats[i].text_color # "" /\ formats[i].bg # "")

\* a slot with a Red row without keyword and an Orange row at level 2
C10_Witness ==
    /\ pc = "formatted"
    /\ \E i, j \in Rows :
          /\ IsStudent(i) /\ final_records[i].Keyword = "" /\ Skill(i) >= 3
          /\ formats[i] = RedText
          /\ IsStudent(j) /\ final_records[j].Keyword = "" /\ Skill(j) = 2
          /\ formats[j] = LightRed

(***************************************************************************)
(* Properties of the keyword and of the class name.                        *)
(***************************************************************************)
\* C7: the keyword of a roster record is 'Group 1', 'Group 2', 'Group 3' or
\* empty, for every keyword cell.
C7_KeywordIsEnumerated ==
    pc = "keyword_done" =>
        clean_keyword \in {<<>>, <<"Group", " ", "1">>, <<"Group", " ", "2">>,
                           <<"Group", " ", "3">>}

\* C9: the day and sort time of the abbreviated class name are those of the
\* class name as it was.
C9_AbbreviationKeepsDayAndTime ==
    pc = "class_done" =>
        /\ class_info[2] = parse_class_info(class_name)[1]
        /\ class_info[3] = parse_class_info(class_name)[2]

(***************************************************************************)
(* Properties of the merge (SpecReconcile).                                *)
(***************************************************************************)
\* the normalised names of the roster's rows that the extractor keeps
RosterKept ==
    {clean_name(list_file[i].raw_name) :
        i \in {k \in DOMAIN list_file : LongEnough(list_file[k].raw_name)}}

FirstRoster(n) ==
    list_file[Min({i \in DOMAIN list_file : clean_name(list_file[i].raw_name) = n})]

RollHits(n) == {i \in DOMAIN roll_file : clean_name(roll_file[i].raw_name) = n}

RecordsOf(n) == {i \in DOMAIN merged_df : merged_df[i].Student_Name = n}

\* C3: after the merge of a roster with an empty roll sheet there is no error
\* and merged_df has one record per roster student, each with level s0, class
\* 'Not Found' and day 'Lost'.
C3_EmptyRollSheetGivesDefaults ==
    (pc = "merged" /\ roll_file = <<>>) =>
        /\ error = ""
        /\ Len(merged_df) = Cardinality(RosterKept)
        /\ \A i \in DOMAIN merged_df :
              /\ merged_df[i].Skill_Level = "s0"
              /\ merged_df[i].Class_Name = NotFound
              /\ merged_df[i].Sort_Day = "Lost"

\* C8: after the merge, for every roster and roll sheet, each roster name has
\* exactly one record, made from the roster's first row of that name and the
\* roll sheet's first row of that name (the defaults when there is none), and
\* no record has a name that is not on the roster.
C8_OneRecordPerRosterName ==
    pc = "merged" =>
        /\ \A n \in RosterKept :
              /\ Cardinality(RecordsOf(n)) = 1
              /\ \A i \in RecordsOf(n) :
                    /\ merged_df[i].Age = FirstRoster(n).age
                    /\ merged_df[i].Skill_Level =
                          IF RollHits(n) = {} THEN "s0"
                          ELSE SkillOf(roll_file[Min(RollHits(n))].details)
                    /\ merged_df[i].Class_Name =
                          IF RollHits(n) = {} THEN NotFound
                          ELSE abbreviate_class_name(roll_file[Min(RollHits(n))].class)
        /\ \A i \in DOMAIN merged_df : merged_df[i].Student_Name \in RosterKept

(***************************************************************************)
(* Properties of the export (SpecExport).                                  *)
(***************************************************************************)
\* C4: when a call of the spreadsheet has failed and the export has ended by
\* an exception, every day's worksheet is as it was before the export or is
\* the complete new one, and no link is handed back as a success.
C4_FailedExportIsAllOrNothing ==
    pc = "raised" =>
        /\ \A d \in Days : worksheets[d] \in {previous[d], "new"}
        /\ link = "None"

(***************************************************************************)
(* Properties of the layout (SpecLayout).                                  *)
(***************************************************************************)
\* the canonical key of a row: group, skill, attendance and age ranks
FullKey(r) ==
    <<parse_group_number(r.Keyword), parse_skill_number(r.Level),
      parse_attendance(r.Attend), parse_age(r.Age)>>

FullKeyLess(a, b) ==
    \/ a[1] < b[1]
    \/ a[1] = b[1] /\ KeyLess(<<a[2], a[3], a[4]>>, <<b[2], b[3], b[4]>>)

\* the position of a student's row in the slot's input
InputPos(r) == CHOOSE k \in DOMAIN time_df : time_df[k] = r

\* C6: in the block built for a time slot, the student rows are in
\* non-decreasing order of (groupRank, skillRank, attendanceRank, ageRank),
\* rows without keyword (rank 99) last, and rows with equal keys are in their
\* input order; for every cohort, the rows without keyword included.
C6_BlockIsInCanonicalOrder ==
    pc # "slot" =>
        \A i, j \in DOMAIN final_records :
            (i < j /\ final_records[i].Student_Name \notin {"", "open"}
                   /\ final_records[j].Student_Name \notin {"", "open"}) =>
                /\ ~FullKeyLess(FullKey(final_records[j]), FullKey(final_records[i]))
                /\ FullKey(final_records[i]) = FullKey(final_records[j])
                      => InputPos(final_records[i]) < InputPos(final_records[j])

(***************************************************************************)
(* Properties of the roll-sheet walk (SpecRollSheet).                      *)
(***************************************************************************)
\* header p is immediately followed by table t: no header lies between them
OwnTable(p, t) ==
    /\ soup[p].kind = "header" /\ soup[t].kind = "table" /\ p < t
    /\ \A q \in (p + 1)..(t - 1) : soup[q].kind # "header"

\* C11: every record appended carries the class name of the header that
\* immediately precedes its table (no other header lies between the two),
\* whatever the source lines; and every row of the de-duplicated result has
\* the class of a header whose own table lists that student.
C11_RecordsCarryTheirHeadersClass ==
    /\ \A k \in DOMAIN roll_data :
          /\ OwnTable(origin[k].header, origin[k].table)
          /\ roll_data[k].Class_Name = current_class_name(soup[origin[k].header].text)
    /\ pc = "walked" =>
          \A k \in DOMAIN df_roll.rows :
              \E p, t \in DOMAIN soup :
                  /\ OwnTable(p, t)
                  /\ df_roll.rows[k].Class_Name = current_class_name(soup[p].text)
                  /\ \E i \in DOMAIN soup[t].rows :
                        clean_name(soup[t].rows[i].raw_name) = df_roll.rows[k].Student_Name

====
